---- MODULE Spec2Model ----
(***************************************************************************)
(* Model of the relay endpoint of asynctest/useapi.py: POST /useapi takes  *)
(* an APIRequest, use_api issues the outbound call through a ClientSession *)
(* and returns a {status, content} envelope; handle_response turns the     *)
(* upstream response into that envelope.                                   *)
(*                                                                         *)
(* Each inbound request is one invocation.  Invocations run on one event   *)
(* loop and interleave at their await points, which are the steps below.   *)
(* The aiohttp client and the FastAPI front end are the environment: the   *)
(* outcome of every call into them is a nondeterministic choice among the  *)
(* outcomes those libraries produce (a response, or a raised exception of  *)
(* a class with the base classes the library gives it).                    *)
(***************************************************************************)
EXTENDS Integers, Sequences, FiniteSets, TLC

\* Total number of inbound requests accepted in one run.
MaxCalls == 3

\* The invocations that can be in flight at the same time.  The event loop
\* gives them no identity beyond being distinct, and every property below
\* is about one invocation or about a pair of them.
Inv == {"a", "b"}

VARIABLES
    pc,        \* pc[i]: position of invocation i
    req,       \* req[i]: the inbound request body / the APIRequest
    opened,    \* opened[i]: sessions constructed by invocation i (their ids)
    openSessions, \* ids of the client sessions that are open
    calls,     \* calls[i]: the session.get / session.post calls made
    fault,     \* fault[i]: exception raised by the outbound call, or "none"
    resp,      \* resp[i]: status line and headers of the upstream response
    body,      \* body[i]: what reading the response body gave
    result,    \* result[i]: what use_api returned or raised
    http,      \* http[i]: status code of the inbound response (0: none yet)
    ncalls     \* inbound requests accepted so far

vars == <<pc, req, opened, openSessions, calls, fault, resp, body, result, http, ncalls>>

----------------------------------------------------------------------------
(* Values *)

\* JSON null and the one JSON object used as a payload.
Null == <<"null">>
Item == <<"obj", "name", "x">>

\* A Python str.
Str(s) == <<"str", s>>
\* f"{prefix}{str(exc)}"
Fmt(prefix, exc) == <<"str", prefix, exc>>

NoReq == [shape |-> "none", host |-> "", port |-> 0, route |-> "", method |-> "", payload |-> Null]
NoResp == [status |-> 0, ctype |-> ""]
NoEnvelope == [status |-> 0, content |-> <<>>]
NoResult == [kind |-> "none", value |-> NoEnvelope, exc |-> "none"]

Envelope(status, content) == [status |-> status, content |-> content]
\* A coroutine ends by returning a value or by raising.
Return(v) == [kind |-> "return", value |-> v, exc |-> "none"]
Raise(e) == [kind |-> "raise", value |-> NoEnvelope, exc |-> e]

----------------------------------------------------------------------------
(* Exception classes: each exception with the classes the except clauses   *)
(* of use_api and handle_response test it against.                         *)

Bases(exc) ==
    CASE exc = "TimeoutError"             -> {"TimeoutError", "OSError"}
      [] exc = "ServerTimeoutError"       -> {"TimeoutError", "ClientError", "OSError"}
      [] exc = "ClientConnectorError"     -> {"ClientConnectorError", "ClientError", "OSError"}
      [] exc = "ServerDisconnectedError"  -> {"ClientError"}
      [] exc = "ClientPayloadError"       -> {"ClientError"}
      [] exc = "ContentTypeError"         -> {"ClientError"}
      [] exc = "InvalidURL"               -> {"ClientError", "ValueError"}
      [] exc = "JSONDecodeError"          -> {"ValueError"}
      [] exc = "UnicodeDecodeError"       -> {"ValueError"}
      [] exc = "OSError"                  -> {"OSError"}
      [] exc = "RecursionError"           -> {}
      [] OTHER                            -> {}

IsInstance(exc, cls) == cls \in Bases(exc)

\* Exceptions the outbound call raises when the URL is well formed.
TransportFaults == {"TimeoutError", "ClientConnectorError", "ServerDisconnectedError", "OSError"}
\* Exceptions raised while the body of a received response is read.
ReadFaults == {"ServerTimeoutError", "ClientPayloadError"}

----------------------------------------------------------------------------
(* Inbound request bodies *)

Methods == {"GET", "POST"}
Ports == {8001, 70000}

ValidBodies ==
    [shape : {"ok"}, host : {"localhost"}, port : Ports, route : {"/api/item/5"},
     method : Methods, payload : {Null, Item}]

InvalidBodies ==
    { [shape |-> "ok", host |-> "localhost", port |-> 8001, route |-> "/api/item/5",
       method |-> "PUT", payload |-> Null],
      [shape |-> "ok", host |-> "localhost", port |-> 8001, route |-> "/api/item/5",
       method |-> "get", payload |-> Null],
      [shape |-> "port_not_int", host |-> "localhost", port |-> 0, route |-> "/api/item/5",
       method |-> "GET", payload |-> Null] }

InboundBodies == ValidBodies \cup InvalidBodies

\* APIRequest: host: str, port: int, route: str, method matching ^(GET|POST)$.
Validates(b) == b.shape = "ok" /\ b.method \in {"GET", "POST"}

----------------------------------------------------------------------------
(* Upstream responses *)

Statuses == {200, 404}
ContentTypes == {"application/json", "text/plain"}
Responses == [status : Statuses, ctype : ContentTypes]

\* Response bodies: a JSON object, plain text, bytes that are not valid in
\* the response's charset, and JSON arrays nested deeper than the
\* interpreter's recursion limit.
JsonBody == "{\"message\": \"ok\"}"
TextBody == "hello"
BadBytes == "\\xff\\xfe"
DeepBody == "[[[[...]]]]"
Bodies == {JsonBody, TextBody, BadBytes, DeepBody}

\* bytes.decode(encoding): the text, or UnicodeDecodeError.
Decode(b) == IF b = BadBytes THEN Raise("UnicodeDecodeError") ELSE Return(Str(b))

\* json.loads on the decoded text.
JsonLoads(b) ==
    CASE b = JsonBody -> Return(<<"obj", "message", "ok">>)
      [] b = DeepBody -> Raise("RecursionError")
      [] OTHER        -> Raise("JSONDecodeError")

----------------------------------------------------------------------------
(* The client library, as use_api and handle_response call it *)

\* url = f"http://{request.host}:{request.port}{request.route}"
Url(r) == <<"http://", r.host, ":", r.port, r.route>>

\* The client builds a URL object from the string and raises InvalidURL when
\* it cannot: here, when the port is outside 0..65535.
UrlBuildable(u) == u[4] >= 0 /\ u[4] <= 65535

\* await response.json(): reads the body, checks the declared content type,
\* decodes the bytes and parses the text.  rd is what the read gives: a body
\* or the exception that interrupts the read.
ResponseJson(r, rd) ==
    IF rd \in ReadFaults THEN Raise(rd)
    ELSE IF r.ctype # "application/json" THEN Raise("ContentTypeError")
    ELSE IF Decode(rd).kind = "raise" THEN Decode(rd)
    ELSE JsonLoads(rd)

\* await response.text(): the body, already read, decoded.
ResponseText(rd) == Decode(rd)

----------------------------------------------------------------------------
(* handle_response *)

handle_response(r, rd) ==
    LET status == r.status
        j == ResponseJson(r, rd)
    IN  IF j.kind = "return"
        THEN Return(Envelope(status, j.value))
        ELSE IF IsInstance(j.exc, "ValueError")
             THEN LET t == ResponseText(rd)
                  IN  IF t.kind = "return"
                      THEN Return(Envelope(status, t.value))
                      ELSE t
             ELSE j

----------------------------------------------------------------------------
(* use_api *)

\* (variant) the ClientError clause placed first.
use_api_except_reordered(exc) ==
    IF IsInstance(exc, "ClientError")
    THEN Return(Envelope(500, Fmt("Client error: ", exc)))
    ELSE IF IsInstance(exc, "TimeoutError")
    THEN Return(Envelope(504, Str("Request timed out")))
    ELSE IF IsInstance(exc, "ClientConnectorError")
    THEN Return(Envelope(503, Fmt("Service unavailable: ", exc)))
    ELSE IF IsInstance(exc, "ValueError")
    THEN Return(Envelope(400, Fmt("Invalid input: ", exc)))
    ELSE IF IsInstance(exc, "OSError")
    THEN Return(Envelope(500, Fmt("I/O error: ", exc)))
    ELSE Raise(exc)

\* The except clauses of use_api, in their order; an exception that matches
\* none of them leaves use_api.
use_api_except(exc) ==
    IF IsInstance(exc, "TimeoutError")
    THEN Return(Envelope(504, Str("Request timed out")))
    ELSE IF IsInstance(exc, "ClientConnectorError")
    THEN Return(Envelope(503, Fmt("Service unavailable: ", exc)))
    ELSE IF IsInstance(exc, "ClientError")
    THEN Return(Envelope(500, Fmt("Client error: ", exc)))
    ELSE IF IsInstance(exc, "ValueError")
    THEN Return(Envelope(400, Fmt("Invalid input: ", exc)))
    ELSE IF IsInstance(exc, "OSError")
    THEN Return(Envelope(500, Fmt("I/O error: ", exc)))
    ELSE Raise(exc)

\* What leaves the try statement: a returned value as it is, a raised
\* exception through the except clauses.
Leave(out) == IF out.kind = "raise" THEN use_api_except(out.exc) ELSE out

\* POST /useapi: the front end answers 200 with what use_api returns, and
\* 500 when use_api raises.
InboundStatus(out) == IF out.kind = "return" THEN 200 ELSE 500

\* ClientSession(): a new session, owned by the invocation that builds it.
NewSession(i) == <<i, ncalls>>

\* The session of invocation i: the one it opened with "async with".
SessionOf(i) == opened[i][Len(opened[i])]

\* (variant) the session is closed at the end of the block only, so a return
\* from inside the block leaves it open.
ExitSessionAtEndOnly(i, path) ==
    IF path = "early_return" THEN openSessions ELSE openSessions \ {SessionOf(i)}

\* Leaving "async with ClientSession() as session" closes the session, on
\* every way out (path: "return", "early_return", "raise").
ExitSession(i, path) == openSessions \ {SessionOf(i)}

\* (variant) the payload is never checked.
PayloadNeverMissing(r) == FALSE

\* if request.method == "POST" and request.payload is None
PayloadMissing(r) == r.method = "POST" /\ r.payload = Null

\* (variant) session.get(url, json=request.payload)
GetCallWithPayload(i) ==
    [method |-> "GET", url |-> Url(req[i]), body |-> <<"json">> \o req[i].payload,
     session |-> SessionOf(i)]

\* session.get(url): no body.
GetCall(i) == [method |-> "GET", url |-> Url(req[i]), body |-> <<>>, session |-> SessionOf(i)]
\* session.post(url, json=request.payload)
PostCall(i) == [method |-> "POST", url |-> Url(req[i]), body |-> <<"json">> \o req[i].payload,
                session |-> SessionOf(i)]

\* (variant) the response is kept in one module-level variable, which every
\* invocation that is handling a response reads.
ResponseOfShared(i) == resp[CHOOSE j \in Inv : pc[j] = "handling"]

\* The response handle_response is given: the one this invocation received.
ResponseOf(i) == resp[i]

----------------------------------------------------------------------------
(* Steps of an invocation *)

Init ==
    /\ pc = [i \in Inv |-> "idle"]
    /\ req = [i \in Inv |-> NoReq]
    /\ opened = [i \in Inv |-> <<>>]
    /\ openSessions = {}
    /\ calls = [i \in Inv |-> <<>>]
    /\ fault = [i \in Inv |-> "none"]
    /\ resp = [i \in Inv |-> NoResp]
    /\ body = [i \in Inv |-> "none"]
    /\ result = [i \in Inv |-> NoResult]
    /\ http = [i \in Inv |-> 0]
    /\ ncalls = 0

\* An inbound POST /useapi with body b.  The front end builds the APIRequest;
\* a body that does not validate is answered 422 and use_api is not called.
Receive(i, b) ==
    /\ pc[i] = "idle"
    /\ ncalls < MaxCalls
    /\ ncalls' = ncalls + 1
    /\ req' = [req EXCEPT ![i] = b]
    /\ IF Validates(b)
       THEN /\ pc' = [pc EXCEPT ![i] = "called"]
            /\ http' = http
       ELSE /\ pc' = [pc EXCEPT ![i] = "done"]
            /\ http' = [http EXCEPT ![i] = 422]
    /\ UNCHANGED <<opened, openSessions, calls, fault, resp, body, result>>

\* async with ClientSession() as session
OpenSession(i) ==
    /\ pc[i] = "called"
    /\ opened' = [opened EXCEPT ![i] = Append(@, NewSession(i))]
    /\ openSessions' = openSessions \cup {NewSession(i)}
    /\ pc' = [pc EXCEPT ![i] = "in_session"]
    /\ UNCHANGED <<req, calls, fault, resp, body, result, http, ncalls>>

\* if request.method == "GET": async with session.get(url) as response
SendGet(i) ==
    /\ pc[i] = "in_session"
    /\ req[i].method = "GET"
    /\ calls' = [calls EXCEPT ![i] = Append(@, GetCall(i))]
    /\ pc' = [pc EXCEPT ![i] = "awaiting"]
    /\ UNCHANGED <<req, opened, openSessions, fault, resp, body, result, http, ncalls>>

\* elif request.method == "POST": if request.payload is None: return {400, ...}
PostWithoutPayload(i) ==
    /\ pc[i] = "in_session"
    /\ req[i].method # "GET"
    /\ PayloadMissing(req[i])
    /\ result' = [result EXCEPT ![i] =
                    Return(Envelope(400, Str("Payload is required for POST requests")))]
    /\ openSessions' = ExitSession(i, "early_return")
    /\ http' = [http EXCEPT ![i] = InboundStatus(result'[i])]
    /\ pc' = [pc EXCEPT ![i] = "done"]
    /\ UNCHANGED <<req, opened, calls, fault, resp, body, ncalls>>

\* async with session.post(url, json=request.payload) as response
SendPost(i) ==
    /\ pc[i] = "in_session"
    /\ req[i].method # "GET"
    /\ req[i].method = "POST"
    /\ ~PayloadMissing(req[i])
    /\ calls' = [calls EXCEPT ![i] = Append(@, PostCall(i))]
    /\ pc' = [pc EXCEPT ![i] = "awaiting"]
    /\ UNCHANGED <<req, opened, openSessions, fault, resp, body, result, http, ncalls>>

\* The outbound call raises: InvalidURL when the URL cannot be built, a
\* transport fault otherwise.  The exception goes through the except clauses.
RequestFails(i, exc) ==
    /\ pc[i] = "awaiting"
    /\ IF UrlBuildable(Url(req[i])) THEN exc \in TransportFaults ELSE exc = "InvalidURL"
    /\ fault' = [fault EXCEPT ![i] = exc]
    /\ result' = [result EXCEPT ![i] = Leave(Raise(exc))]
    /\ openSessions' = ExitSession(i, "raise")
    /\ http' = [http EXCEPT ![i] = InboundStatus(result'[i])]
    /\ pc' = [pc EXCEPT ![i] = "done"]
    /\ UNCHANGED <<req, opened, calls, resp, body, ncalls>>

\* The upstream answers: status line and headers are in.
ResponseArrives(i, r) ==
    /\ pc[i] = "awaiting"
    /\ UrlBuildable(Url(req[i]))
    /\ resp' = [resp EXCEPT ![i] = r]
    /\ pc' = [pc EXCEPT ![i] = "handling"]
    /\ UNCHANGED <<req, opened, openSessions, calls, fault, body, result, http, ncalls>>

\* return await handle_response(response): the body is read (rd) and the
\* envelope built; what handle_response raises goes through the except
\* clauses of use_api.
HandleResponse(i, rd) ==
    /\ pc[i] = "handling"
    /\ body' = [body EXCEPT ![i] = rd]
    /\ result' = [result EXCEPT ![i] = Leave(handle_response(ResponseOf(i), rd))]
    /\ openSessions' = ExitSession(i, IF handle_response(ResponseOf(i), rd).kind = "raise"
                                      THEN "raise" ELSE "return")
    /\ http' = [http EXCEPT ![i] = InboundStatus(result'[i])]
    /\ pc' = [pc EXCEPT ![i] = "done"]
    /\ UNCHANGED <<req, opened, calls, fault, resp, ncalls>>

\* The inbound response has been sent; the worker takes the next request.
Finish(i) ==
    /\ pc[i] = "done"
    /\ pc' = [pc EXCEPT ![i] = "idle"]
    /\ req' = [req EXCEPT ![i] = NoReq]
    /\ opened' = [opened EXCEPT ![i] = <<>>]
    /\ calls' = [calls EXCEPT ![i] = <<>>]
    /\ fault' = [fault EXCEPT ![i] = "none"]
    /\ resp' = [resp EXCEPT ![i] = NoResp]
    /\ body' = [body EXCEPT ![i] = "none"]
    /\ result' = [result EXCEPT ![i] = NoResult]
    /\ http' = [http EXCEPT ![i] = 0]
    /\ UNCHANGED <<openSessions, ncalls>>

Next ==
    \E i \in Inv :
        \/ \E b \in InboundBodies : Receive(i, b)
        \/ OpenSession(i)
        \/ SendGet(i)
        \/ PostWithoutPayload(i)
        \/ SendPost(i)
        \/ \E exc \in TransportFaults \cup {"InvalidURL"} : RequestFails(i, exc)
        \/ \E r \in Responses : ResponseArrives(i, r)
        \/ \E rd \in Bodies \cup ReadFaults : HandleResponse(i, rd)
        \/ Finish(i)

Spec == Init /\ [][Next]_vars

----------------------------------------------------------------------------
(* Properties *)

\* Invocation i of use_api has ended (returned or raised).
Ended(i) == pc[i] = "done" /\ Validates(req[i])

\* The exception the client raised in invocation i, "none" if it raised none.
RaisedIn(i) ==
    IF fault[i] # "none" THEN fault[i]
    ELSE IF body[i] \in ReadFaults THEN body[i]
    ELSE "none"

\* Bodies that are JSON documents.
IsJson(b) == b \in {JsonBody, DeepBody}

IsEnvelope(out) == out.kind = "return" /\ out.value.status \in 100..599

PayloadRequired == Return(Envelope(400, Str("Payload is required for POST requests")))

\* C1: every invocation of use_api on a validated descriptor ends by
\* returning an envelope, whatever the outbound call does; no exception
\* reaches the inbound server layer.
C1_AlwaysEnvelope ==
    \A i \in Inv : Ended(i) => IsEnvelope(result[i]) /\ http[i] = 200

\* C2: a POST descriptor without payload returns exactly
\* {400, "Payload is required for POST requests"} and no outbound call is
\* made at any point of the invocation, whatever the port.
C2_PostWithoutPayload ==
    \A i \in Inv :
        (Validates(req[i]) /\ req[i].method = "POST" /\ req[i].payload = Null)
            => /\ calls[i] = <<>>
               /\ fault[i] = "none" /\ resp[i] = NoResp
               /\ pc[i] = "done" => result[i] = PayloadRequired

C2_Witness ==
    \E i \in Inv :
        /\ pc[i] = "done" /\ req[i].method = "POST" /\ req[i].payload = Null
        /\ req[i].port = 70000
        /\ result[i] = PayloadRequired /\ calls[i] = <<>>

\* C3: when the upstream's body is text that is not JSON, the envelope has
\* the upstream's status and the raw text as content, whatever the declared
\* content type and status.
C3_NonJsonRawText ==
    \A i \in Inv :
        (pc[i] = "done" /\ body[i] \in Bodies /\ ~IsJson(body[i])
         /\ Decode(body[i]).kind = "return")
            => result[i] = Return(Envelope(resp[i].status, Str(body[i])))

\* C4: once an upstream response is received and its body read, the
\* envelope's status is the upstream's status, and the content is the
\* parsed value when the body parses as JSON.
C4_UpstreamPassThrough ==
    \A i \in Inv :
        (pc[i] = "done" /\ body[i] \in Bodies)
            => /\ IsEnvelope(result[i])
               /\ result[i].value.status = resp[i].status
               /\ body[i] = JsonBody
                    => result[i].value.content = <<"obj", "message", "ok">>

\* C5: malformed input detected by the client (a URL it cannot build) is
\* returned as {400, "Invalid input: ..."}.
C5_MalformedInput400 ==
    \A i \in Inv :
        (pc[i] = "done" /\ IsInstance(RaisedIn(i), "ValueError"))
            => result[i] = Return(Envelope(400, Fmt("Invalid input: ", RaisedIn(i))))

\* C6: POST /useapi answers every inbound body with a success-level status.
C6_InboundAlwaysSuccess ==
    \A i \in Inv : pc[i] = "done" => http[i] \in 200..299

\* C7: a timeout of the outbound call always gives {504, "Request timed
\* out"} and a connection that cannot be established always gives
\* {503, "Service unavailable: ..."}, never one of the generic 500s.
C7_TransportClassification ==
    \A i \in Inv :
        pc[i] = "done" =>
            /\ IsInstance(RaisedIn(i), "TimeoutError")
                 => result[i] = Return(Envelope(504, Str("Request timed out")))
            /\ IsInstance(RaisedIn(i), "ClientConnectorError")
                 => result[i] = Return(Envelope(503, Fmt("Service unavailable: ", RaisedIn(i))))

C7_Witness ==
    \E i, j \in Inv :
        /\ pc[i] = "done" /\ body[i] = "ServerTimeoutError" /\ result[i].value.status = 504
        /\ pc[j] = "done" /\ fault[j] = "ClientConnectorError" /\ result[j].value.status = 503

\* The invocations that are inside their "async with ClientSession()" block.
InSession == {i \in Inv : pc[i] \in {"in_session", "awaiting", "handling"}}

\* C8: an invocation opens exactly one session, which is open while the
\* invocation is inside the block and closed once it has ended, on every
\* path; no session is open that belongs to no running invocation, and no
\* two invocations have a session in common.
C8_SessionScope ==
    /\ \A i \in Inv :
        /\ Len(opened[i]) <= 1
        /\ i \in InSession => Len(opened[i]) = 1 /\ SessionOf(i) \in openSessions
        /\ Ended(i) => Len(opened[i]) = 1 /\ SessionOf(i) \notin openSessions
        /\ \A k \in 1..Len(calls[i]) : calls[i][k].session = SessionOf(i)
    /\ openSessions \subseteq {SessionOf(i) : i \in InSession}
    /\ \A i, j \in Inv :
        (i # j /\ opened[i] # <<>> /\ opened[j] # <<>>) => SessionOf(i) # SessionOf(j)

C8_Witness ==
    \E i, j \in Inv :
        /\ i # j
        /\ pc[i] = "done" /\ result[i] = PayloadRequired
        /\ Len(opened[i]) = 1 /\ SessionOf(i) \notin openSessions
        /\ pc[j] = "handling" /\ openSessions = {SessionOf(j)}

\* C9: an invocation makes at most one outbound call: one GET without body
\* for a GET descriptor (payload or not), one POST with the payload as JSON
\* body for a POST descriptor with payload, none for a POST without payload;
\* a failed call is not repeated.
C9_SingleAttempt ==
    \A i \in Inv :
        /\ Len(calls[i]) <= 1
        /\ (pc[i] \in {"awaiting", "handling"} \/ (Ended(i) /\ result[i] # PayloadRequired))
             => /\ Len(calls[i]) = 1
                /\ calls[i][1].method = req[i].method
                /\ calls[i][1].url = Url(req[i])
                /\ calls[i][1].body =
                     IF req[i].method = "GET" THEN <<>> ELSE <<"json">> \o req[i].payload
                /\ req[i].method = "POST" => req[i].payload # Null
        /\ (Ended(i) /\ result[i] = PayloadRequired) => calls[i] = <<>>

C9_Witness ==
    \E i, j \in Inv :
        /\ pc[i] = "done" /\ req[i].method = "GET" /\ req[i].payload = Item
        /\ fault[i] = "ClientConnectorError" /\ Len(calls[i]) = 1 /\ calls[i][1].body = <<>>
        /\ pc[j] = "done" /\ req[j].method = "POST" /\ resp[j] # NoResp
        /\ Len(calls[j]) = 1 /\ calls[j][1].body = <<"json">> \o Item

\* What invocation i was given: its descriptor and the outcome of its own
\* outbound call.
Inputs(i) == <<req[i], fault[i], resp[i], body[i]>>

\* C10: two invocations with the same descriptor whose outbound calls had
\* the same outcome end with the same result, whatever ran before them or
\* between their steps.
C10_Independent ==
    \A i, j \in Inv :
        (Ended(i) /\ Ended(j) /\ Inputs(i) = Inputs(j))
            => result[i] = result[j] /\ http[i] = http[j]

C10_Witness ==
    \E i, j \in Inv :
        /\ i # j /\ Ended(i) /\ Ended(j) /\ Inputs(i) = Inputs(j)
        /\ req[i].method = "GET" /\ resp[i].status = 404 /\ body[i] = JsonBody
        /\ result[i] = result[j] /\ ncalls = MaxCalls

====
